---- MODULE Spec2Model ----
(***************************************************************************)
(* Model of streamlit_app.py: the session state (an insertion-ordered      *)
(* dict), the cached model package, the widget helpers, the Feature Row    *)
(* builder make_row_from_state and predict.                                *)
(*                                                                         *)
(* Python values are records [t, n, s]: t is the Python type, n the number *)
(* (an int as itself, a float in tenths, a bool as 0/1) and s the          *)
(* characters of a str.  A dict is a sequence of <<key, value>> pairs in   *)
(* insertion order.                                                        *)
(***************************************************************************)
EXTENDS Integers, Sequences, FiniteSets, TLC

VARIABLES
    disk,       \* the package stored in diabetes_model.pkl
    cache,      \* what st.cache_resource holds for load_model (NoPkg: nothing)
    diskReads,  \* how many times load_model's body has opened the file
    model,      \* module global model
    COLUMNS,    \* module global COLUMNS
    DEFAULTS,   \* module global DEFAULTS
    session,    \* st.session_state
    mode,       \* the sidebar's input mode
    row,        \* the last Feature Row built (<<>>: none yet)
    pred,       \* the last label returned by predict (-1: none yet)
    prob,       \* the last probability returned by predict
    proba,      \* the last output of model.predict_proba(row)[0] (<<>>: not called)
    lastOp,     \* the operation that ran last
    outcome,    \* "ok", or "raised" when the operation let an exception escape
    result,     \* the value the last widget helper computed for its widget
    field,      \* the column the last widget helper was called for
    sinceReset  \* "none": no reset yet; "clean": reset and not edited since; "edited"

vars == <<disk, cache, diskReads, model, COLUMNS, DEFAULTS, session, mode, row,
          pred, prob, proba, lastOp, outcome, result, field,
          sinceReset>>

-----------------------------------------------------------------------------
(* Bounds *)

\* most keys the session state holds when a helper is applied to an arbitrary one
MaxKeys == 2

\* most form fields the user changes before one press of Predict
MaxEdits == 1

-----------------------------------------------------------------------------
(* Python values *)

IntV(i) == [t |-> "int", n |-> i, s |-> <<>>]

FloatV(tenths) == [t |-> "float", n |-> tenths, s |-> <<>>]

BoolV(b) == [t |-> "bool", n |-> IF b THEN 1 ELSE 0, s |-> <<>>]

StrV(chars) == [t |-> "str", n |-> 0, s |-> chars]

NoneV == [t |-> "none", n |-> 0, s |-> <<>>]

Ok(v) == [ok |-> TRUE, val |-> v]

Raise == [ok |-> FALSE, val |-> NoneV]

Digits == <<"0", "1", "2", "3", "4", "5", "6", "7", "8", "9">>

IsDigit(c) == \E i \in 1..Len(Digits) : Digits[i] = c

DigitVal(c) == (CHOOSE i \in 1..Len(Digits) : Digits[i] = c) - 1

RECURSIVE DigitsVal(_)
DigitsVal(cs) ==
    IF cs = <<>> THEN 0
    ELSE DigitsVal(SubSeq(cs, 1, Len(cs) - 1)) * 10 + DigitVal(cs[Len(cs)])

\* a decimal integer literal (the strings modelled carry no sign or blanks)
IsIntLiteral(cs) == Len(cs) > 0 /\ \A i \in 1..Len(cs) : IsDigit(cs[i])

\* digits "." digit: a float literal with one decimal
IsFloatLiteral(cs) ==
    /\ Len(cs) >= 3
    /\ cs[Len(cs) - 1] = "."
    /\ IsDigit(cs[Len(cs)])
    /\ IsIntLiteral(SubSeq(cs, 1, Len(cs) - 2))

\* truncation toward zero of a float held in tenths
Trunc(tenths) == IF tenths >= 0 THEN tenths \div 10 ELSE -((-tenths) \div 10)

\* int(v)
PyInt(v) ==
    CASE v.t = "int" -> Ok(IntV(v.n))
      [] v.t = "bool" -> Ok(IntV(v.n))
      [] v.t = "float" -> Ok(IntV(Trunc(v.n)))
      [] v.t = "str" -> IF IsIntLiteral(v.s) THEN Ok(IntV(DigitsVal(v.s))) ELSE Raise
      [] OTHER -> Raise

\* float(v)
PyFloat(v) ==
    CASE v.t = "int" -> Ok(FloatV(v.n * 10))
      [] v.t = "bool" -> Ok(FloatV(v.n * 10))
      [] v.t = "float" -> Ok(FloatV(v.n))
      [] v.t = "str" ->
            IF IsIntLiteral(v.s) THEN Ok(FloatV(DigitsVal(v.s) * 10))
            ELSE IF IsFloatLiteral(v.s)
                 THEN Ok(FloatV(DigitsVal(SubSeq(v.s, 1, Len(v.s) - 2)) * 10
                                + DigitVal(v.s[Len(v.s)])))
                 ELSE Raise
      [] OTHER -> Raise

\* a == b for Python numbers: an int, a bool and a float compare by value
PyEq(a, b) ==
    LET num(x) == x.t \in {"int", "bool", "float"}
        tenths(x) == IF x.t = "float" THEN x.n ELSE x.n * 10
    IN  IF num(a) /\ num(b) THEN tenths(a) = tenths(b) ELSE a = b

-----------------------------------------------------------------------------
(* dict: a sequence of <<key, value>> pairs in insertion order *)

Keys(d) == {d[i][1] : i \in 1..Len(d)}

Has(d, k) == k \in Keys(d)

Lookup(d, k) == d[CHOOSE i \in 1..Len(d) : d[i][1] = k][2]

\* d.get(k, dflt) reads the dict and leaves it as it is
DictGet(d, k, dflt) == IF Has(d, k) THEN Lookup(d, k) ELSE dflt

\* d[k] = v keeps the position of a key already present, appends a new one
DictSet(d, k, v) ==
    IF Has(d, k)
    THEN [i \in 1..Len(d) |-> IF d[i][1] = k THEN <<k, v>> ELSE d[i]]
    ELSE Append(d, <<k, v>>)

Range(seq) == {seq[i] : i \in 1..Len(seq)}

-----------------------------------------------------------------------------
(* The model package and the field metadata *)

\* two feature schemas a training run may have saved; the fields they share
\* come in a different order
SchemaA == <<"HighBP", "BMI", "GenHlth", "MentHlth">>

SchemaB == <<"GenHlth", "Age", "CholCheck", "BMI">>

NoPkg == [present |-> FALSE, columns |-> <<>>, hasProba |-> FALSE]

\* the packages diabetes_model.pkl may hold: {"model": ..., "columns": ...}
Packages ==
    {[present |-> TRUE, columns |-> c, hasProba |-> b] :
        c \in {SchemaA, SchemaB}, b \in BOOLEAN}

\* pkg["model"]: the classifier, with the interface it exposes
ModelOf(pkg) == [hasProba |-> pkg.hasProba, features |-> pkg.columns]

BINARY_FIELDS ==
    {"HighBP", "HighChol", "CholCheck", "Smoker", "Stroke", "HeartDiseaseorAttack",
     "PhysActivity", "Fruits", "Veggies", "HvyAlcoholConsump", "AnyHealthcare",
     "NoDocbcCost", "DiffWalk"}

\* load_model under st.cache_resource: the body runs only when nothing is cached
load_model_uncached(c, d) == [pkg |-> d, cache |-> d, reads |-> 1]

load_model(c, d) ==
    IF c.present
    THEN [pkg |-> c, cache |-> c, reads |-> 0]
    ELSE [pkg |-> d, cache |-> d, reads |-> 1]

\* if k in DEFAULTS: DEFAULTS[k] = v
Override(d, k, v) == IF Has(d, k) THEN DictSet(d, k, v) ELSE d

ZeroDefaults(cols) == [i \in 1..Len(cols) |-> <<cols[i], IntV(0)>>]

\* DEFAULTS = {col: 0 for col in COLUMNS}, then the eight starter values
MakeDefaults(cols) ==
    LET d0 == [i \in 1..Len(cols) |-> <<cols[i], IntV(0)>>]
        d1 == Override(d0, "BMI", FloatV(250))
        d2 == Override(d1, "GenHlth", IntV(3))
        d3 == Override(d2, "MentHlth", IntV(0))
        d4 == Override(d3, "PhysHlth", IntV(0))
        d5 == Override(d4, "Age", IntV(8))
        d6 == Override(d5, "Sex", IntV(1))
        d7 == Override(d6, "Education", IntV(4))
    IN  Override(d7, "Income", IntV(5))

-----------------------------------------------------------------------------
(* Session state init and reset *)

RECURSIVE InitFrom(_, _, _, _)
InitFrom(s, cols, dflts, i) ==
    IF i > Len(cols) THEN s
    ELSE InitFrom(IF Has(s, cols[i]) THEN s
                  ELSE DictSet(s, cols[i], DictGet(dflts, cols[i], IntV(0))),
                  cols, dflts, i + 1)

RECURSIVE ResetFrom(_, _, _, _)
ResetFrom(s, cols, dflts, i) ==
    IF i > Len(cols) THEN s
    ELSE ResetFrom(DictSet(s, cols[i], DictGet(dflts, cols[i], IntV(0))),
                   cols, dflts, i + 1)

reset_state_absent_only(s, cols, dflts) == InitFrom(s, cols, dflts, 1)

init_state(s, cols, dflts) == InitFrom(s, cols, dflts, 1)

reset_state(s, cols, dflts) == ResetFrom(s, cols, dflts, 1)

-----------------------------------------------------------------------------
(* UI helpers: what each computes from the session state for its widget *)

Modes == {"Simple (recommended)", "Advanced (all fields)"}

\* the fields of simple_form, in the order the script renders them
SimpleFields ==
    <<"BMI", "HighBP", "HighChol", "Smoker", "PhysActivity", "GenHlth", "MentHlth",
      "PhysHlth", "DiffWalk", "Age", "Sex", "Education", "Income">>

\* the fields of advanced_form, in the order the script renders them
AdvancedFields ==
    <<"BMI", "HighBP", "HighChol", "CholCheck", "Stroke", "HeartDiseaseorAttack",
      "Smoker", "PhysActivity", "Fruits", "Veggies", "HvyAlcoholConsump",
      "AnyHealthcare", "NoDocbcCost", "GenHlth", "MentHlth", "PhysHlth", "DiffWalk",
      "Sex", "Age", "Education", "Income">>

FormFields(m) == IF m = "Simple (recommended)" THEN SimpleFields ELSE AdvancedFields

\* the helper each form calls for a field
WidgetKind(col, m) ==
    IF m = "Simple (recommended)"
    THEN CASE col \in {"HighBP", "HighChol", "Smoker", "PhysActivity", "DiffWalk"}
                -> "binary"
           [] col = "GenHlth" -> "slider"
           [] OTHER -> "num"
    ELSE CASE col \in BINARY_FIELDS -> "binary"
           [] col = "GenHlth" -> "slider"
           [] OTHER -> "num"

\* max_value of the num_input call for a field (NoneV: no max_value)
MaxValueOf(col) == IF col \in {"MentHlth", "PhysHlth"} THEN IntV(30) ELSE NoneV

\* min_value of the num_input call for a field
MinValueOf(col) == IF col = "BMI" THEN FloatV(0) ELSE IntV(0)

\* binary_select: the index handed to st.selectbox; the bare except swallows
\* whatever int() raises
binary_select(s, col) ==
    LET current == DictGet(s, col, IntV(0))
        asInt == IF PyInt(current).ok THEN PyInt(current).val ELSE IntV(0)
    IN  Ok(IF PyEq(asInt, IntV(1)) THEN IntV(1) ELSE IntV(0))

\* a num_input that refuses a value above max_value
num_input_checked(s, col, dflts, min_value, max_value) ==
    LET v == PyFloat(DictGet(s, col, DictGet(dflts, col, IntV(0))))
    IN  IF v.ok /\ max_value # NoneV /\ v.val.n > PyFloat(max_value).val.n
        THEN Raise ELSE v

\* num_input: the value handed to st.number_input; float() is not guarded, and
\* min_value and max_value only go to the widget as float(min_value), float(max_value)
num_input(s, col, dflts, min_value, max_value) ==
    PyFloat(DictGet(s, col, DictGet(dflts, col, IntV(0))))

\* slider_input: the value handed to st.slider; int() is not guarded
slider_input(s, col, dflts, min_v) ==
    PyInt(DictGet(s, col, DictGet(dflts, col, IntV(min_v))))

\* the helper call a form makes for one of its fields
RenderField(s, col, dflts, m) ==
    CASE WidgetKind(col, m) = "binary" -> binary_select(s, col)
      [] WidgetKind(col, m) = "slider" -> slider_input(s, col, dflts, 1)
      [] OTHER -> num_input(s, col, dflts, MinValueOf(col), MaxValueOf(col))

\* the form of mode m renders without an exception
RenderForm(s, cols, dflts, m) ==
    \A i \in 1..Len(FormFields(m)) :
        FormFields(m)[i] \in Range(cols) => RenderField(s, FormFields(m)[i], dflts, m).ok

-----------------------------------------------------------------------------
(* Feature Row builder and predictor *)

\* st.session_state.setdefault(k, dflt): stores the default it returns
SessionSetDefault(s, k, dflt) ==
    [val |-> DictGet(s, k, dflt), st |-> IF Has(s, k) THEN s ELSE DictSet(s, k, dflt)]

\* st.session_state.get(k, dflt): the value, and the session state after the call
SessionGet(s, k, dflt) == [val |-> DictGet(s, k, dflt), st |-> s]

\* user_inputs = {col: st.session_state.get(col, DEFAULTS.get(col, 0)) for col in COLUMNS}
RECURSIVE UserInputs(_, _, _, _, _)
UserInputs(s, cols, dflts, i, acc) ==
    IF i > Len(cols) THEN [inputs |-> acc, st |-> s]
    ELSE LET g == SessionGet(s, cols[i], DictGet(dflts, cols[i], IntV(0)))
         IN  UserInputs(g.st, cols, dflts, i + 1, DictSet(acc, cols[i], g.val))

\* DataFrame.reindex(columns=cols, fill_value=fill) on a one-row frame
Reindex(frame, cols, fill) ==
    [i \in 1..Len(cols) |-> <<cols[i], DictGet(frame, cols[i], fill)>>]

\* a builder that takes the session state as the frame and does not reindex
make_row_unordered(s, cols, dflts) == [row |-> s, st |-> s]

\* make_row_from_state: the row as <<column, value>> pairs, and the session
\* state after the call
make_row_from_state(s, cols, dflts) ==
    LET u == UserInputs(s, cols, dflts, 1, <<>>)
    IN  [row |-> Reindex(u.inputs, cols, IntV(0)), st |-> u.st]

\* what the classifier may answer for a row: model.predict(row)[0] is the class
\* label 0.0 or 1.0, model.predict_proba(row)[0] the probabilities of class 0
\* and class 1, in tenths
ModelOutputs ==
    {[label |-> FloatV(0), proba |-> <<8, 2>>], [label |-> FloatV(10), proba |-> <<3, 7>>]}

\* a predict that reads the probability of class 0
predict_class0(mdl, r, out) ==
    [pred |-> PyInt(out.label).val.n,
     prob |-> IF mdl.hasProba THEN FloatV(out.proba[1]) ELSE NoneV,
     proba |-> IF mdl.hasProba THEN out.proba ELSE <<>>]

\* predict: (pred, prob), and the predict_proba output it read (<<>>: not called)
predict(mdl, r, out) ==
    [pred |-> PyInt(out.label).val.n,
     prob |-> IF mdl.hasProba THEN FloatV(out.proba[2]) ELSE NoneV,
     proba |-> IF mdl.hasProba THEN out.proba ELSE <<>>]

-----------------------------------------------------------------------------
(* The app: every action is one user interaction and the script run it causes *)

\* the top of the script: load_model(), the globals, DEFAULTS, init_state()
Startup(c, d, s) ==
    LET l == load_model(c, d)
        cols == l.pkg.columns
        dflts == MakeDefaults(cols)
    IN  [cache |-> l.cache, reads |-> l.reads, model |-> ModelOf(l.pkg),
         cols |-> cols, dflts |-> dflts, session |-> init_state(s, cols, dflts)]

\* the values a user can give a field through its widget: a selectbox over
\* [0, 1], a slider over the ints 1..5, a number_input over floats from
\* min_value to max_value
WidgetChoices(col, m) ==
    CASE WidgetKind(col, m) = "binary" -> {IntV(0), IntV(1)}
      [] WidgetKind(col, m) = "slider" -> {IntV(1), IntV(5)}
      [] OTHER ->
            {v \in {FloatV(90), FloatV(312), FloatV(990)} :
                /\ v.n >= PyFloat(MinValueOf(col)).val.n
                /\ MaxValueOf(col) # NoneV => v.n <= PyFloat(MaxValueOf(col)).val.n
                /\ col = "BMI" <=> v.n = 312}

\* the sets of at most n edits drawn from all, no field edited twice
RECURSIVE EditsUpTo(_, _)
EditsUpTo(all, n) ==
    IF n = 0 THEN {{}}
    ELSE LET prev == EditsUpTo(all, n - 1)
         IN  prev \cup UNION {{E \cup {e} :
                                   e \in {x \in all : \A y \in E : y[1] # x[1]}} :
                               E \in prev}

\* the edits of one submission: at most MaxEdits fields of the form on screen
EditSets(m, cols) ==
    LET fields == Range(FormFields(m)) \cap Range(cols)
    IN  EditsUpTo(UNION {{<<c, v>> : v \in WidgetChoices(c, m)} : c \in fields},
                  MaxEdits)

\* the widgets' new values reach st.session_state before the script runs
RECURSIVE ApplyEdits(_, _)
ApplyEdits(s, E) ==
    IF E = {} THEN s
    ELSE LET e == CHOOSE x \in E : TRUE
         IN  ApplyEdits(DictSet(s, e[1], e[2]), E \ {e})

Init ==
    /\ disk \in Packages
    /\ cache = NoPkg
    /\ diskReads = 0
    /\ model = ModelOf(NoPkg)
    /\ COLUMNS = <<>>
    /\ DEFAULTS = <<>>
    /\ session = <<>>
    /\ mode = "Simple (recommended)"
    /\ row = <<>>
    /\ pred = -1
    /\ prob = NoneV
    /\ proba = <<>>
    /\ lastOp = "start"
    /\ outcome = "ok"
    /\ result = NoneV
    /\ field = ""
    /\ sinceReset = "none"

\* the page is opened, or the input mode is changed: a run with submitted False
Run(m) ==
    \E u \in {Startup(cache, disk, session)} :
        /\ cache' = u.cache
        /\ diskReads' = diskReads + u.reads
        /\ model' = u.model
        /\ COLUMNS' = u.cols
        /\ DEFAULTS' = u.dflts
        /\ session' = u.session
        /\ mode' = m
        /\ outcome' = IF RenderForm(u.session, u.cols, u.dflts, m) THEN "ok" ELSE "raised"
        /\ row' = <<>>
        /\ pred' = -1
        /\ prob' = NoneV
        /\ proba' = <<>>
        /\ lastOp' = "run"
        /\ UNCHANGED <<disk, result, field, sinceReset>>

\* the user changes the fields of E and presses Predict: a run with submitted True
Submit(E, out) ==
    /\ lastOp # "start"
    /\ \E u \in {Startup(cache, disk, ApplyEdits(session, E))} :
       \E ok \in {RenderForm(u.session, u.cols, u.dflts, mode)} :
       \E rr \in {make_row_from_state(u.session, u.cols, u.dflts)} :
       \E p \in {predict(u.model, rr.row, out)} :
           /\ cache' = u.cache
           /\ diskReads' = diskReads + u.reads
           /\ model' = u.model
           /\ COLUMNS' = u.cols
           /\ DEFAULTS' = u.dflts
           /\ session' = IF ok THEN rr.st ELSE u.session
           /\ outcome' = IF ok THEN "ok" ELSE "raised"
           /\ row' = IF ok THEN rr.row ELSE <<>>
           /\ pred' = IF ok THEN p.pred ELSE -1
           /\ prob' = IF ok THEN p.prob ELSE NoneV
           /\ proba' = IF ok THEN p.proba ELSE <<>>
    /\ lastOp' = "submit"
    /\ sinceReset' = IF E # {} /\ sinceReset = "clean" THEN "edited" ELSE sinceReset
    /\ UNCHANGED <<disk, mode, result, field>>

\* the user presses Reset inputs: reset_state(), then st.rerun() runs the script anew
Reset ==
    /\ lastOp # "start"
    /\ \E u \in {Startup(cache, disk, session)} :
       \E v \in {Startup(u.cache, disk, reset_state(u.session, u.cols, u.dflts))} :
           /\ cache' = v.cache
           /\ diskReads' = diskReads + u.reads + v.reads
           /\ model' = v.model
           /\ COLUMNS' = v.cols
           /\ DEFAULTS' = v.dflts
           /\ session' = v.session
           /\ outcome' = IF RenderForm(v.session, v.cols, v.dflts, mode)
                         THEN "ok" ELSE "raised"
    /\ row' = <<>>
    /\ pred' = -1
    /\ prob' = NoneV
    /\ proba' = <<>>
    /\ lastOp' = "reset"
    /\ sinceReset' = "clean"
    /\ UNCHANGED <<disk, mode, result, field>>

\* the file diabetes_model.pkl is replaced while the process runs
ReplaceArtifact(p) ==
    /\ p # disk
    /\ disk' = p
    /\ UNCHANGED <<cache, diskReads, model, COLUMNS, DEFAULTS, session, mode, row,
                   pred, prob, proba, lastOp, outcome, result, field, sinceReset>>

RunAny == \E m \in Modes : Run(m)

SubmitAny == \E E \in EditSets(mode, COLUMNS), out \in ModelOutputs : Submit(E, out)

ReplaceAny == \E p \in Packages : ReplaceArtifact(p)

Next == RunAny \/ SubmitAny \/ Reset \/ ReplaceAny

Spec == Init /\ [][Next]_vars

-----------------------------------------------------------------------------
(* The helpers applied to an arbitrary session state *)

\* a key of st.session_state that is no column: the form's submit button
ExtraKey == "FormSubmitter:simple_form-Predict"

\* the values an Answer Set may hold for a field, well-formed or not
Values ==
    {IntV(1), IntV(45), FloatV(17), StrV(<<"Y", "e", "s">>), StrV(<<"1">>), NoneV}

\* the entries an arbitrary session state is made of: a column with any value,
\* or the submit button with its bool
Entries(cols) == (Range(cols) \X Values) \cup {<<ExtraKey, BoolV(FALSE)>>}

\* the session states of at most MaxKeys keys, in every insertion order
Sessions(cols) ==
    UNION {{s \in [1..n -> Entries(cols)] :
                \A i, j \in 1..n : s[i][1] = s[j][1] => i = j} : n \in 0..MaxKeys}

InitFn ==
    /\ disk \in {p \in Packages : p.hasProba}
    /\ cache = disk
    /\ diskReads = 1
    /\ model = ModelOf(disk)
    /\ COLUMNS = disk.columns
    /\ DEFAULTS = MakeDefaults(disk.columns)
    /\ session \in Sessions(disk.columns)
    /\ mode = "Simple (recommended)"
    /\ row = <<>>
    /\ pred = -1
    /\ prob = NoneV
    /\ proba = <<>>
    /\ lastOp = "start"
    /\ outcome = "ok"
    /\ result = NoneV
    /\ field = ""
    /\ sinceReset = "none"

\* some form calls the helper of this kind for the column
Calls(kind, col) ==
    /\ col \in Range(COLUMNS)
    /\ \E m \in Modes : col \in Range(FormFields(m)) /\ WidgetKind(col, m) = kind

Helper(name, col, r) ==
    /\ lastOp' = name
    /\ field' = col
    /\ outcome' = IF r.ok THEN "ok" ELSE "raised"
    /\ result' = r.val
    /\ row' = <<>>
    /\ pred' = -1
    /\ prob' = NoneV
    /\ proba' = <<>>
    /\ UNCHANGED <<disk, cache, diskReads, model, COLUMNS, DEFAULTS, session, mode,
                   sinceReset>>

CallBinarySelect ==
    \E col \in Range(COLUMNS) :
        /\ Calls("binary", col)
        /\ Helper("binary_select", col, binary_select(session, col))

CallNumInput ==
    \E col \in Range(COLUMNS) :
        /\ Calls("num", col)
        /\ Helper("num_input", col,
                  num_input(session, col, DEFAULTS, MinValueOf(col), MaxValueOf(col)))

CallSliderInput ==
    \E col \in Range(COLUMNS) :
        /\ Calls("slider", col)
        /\ Helper("slider_input", col, slider_input(session, col, DEFAULTS, 1))

CallMakeRow ==
    \E rr \in {make_row_from_state(session, COLUMNS, DEFAULTS)} :
        /\ row' = rr.row
        /\ session' = rr.st
        /\ lastOp' = "make_row"
        /\ outcome' = "ok"
        /\ result' = NoneV
        /\ field' = ""
        /\ pred' = -1
        /\ prob' = NoneV
        /\ proba' = <<>>
        /\ UNCHANGED <<disk, cache, diskReads, model, COLUMNS, DEFAULTS, mode,
                       sinceReset>>

CallInitState ==
    /\ session' = init_state(session, COLUMNS, DEFAULTS)
    /\ lastOp' = "init_state"
    /\ outcome' = "ok"
    /\ result' = NoneV
    /\ field' = ""
    /\ row' = <<>>
    /\ pred' = -1
    /\ prob' = NoneV
    /\ proba' = <<>>
    /\ UNCHANGED <<disk, cache, diskReads, model, COLUMNS, DEFAULTS, mode, sinceReset>>

\* Predict is pressed in mode m with nothing edited
SubmitFn ==
    \E m \in Modes, out \in ModelOutputs :
        /\ mode' = m
        /\ \E u \in {Startup(cache, disk, session)} :
           \E ok \in {RenderForm(u.session, u.cols, u.dflts, m)} :
           \E rr \in {make_row_from_state(u.session, u.cols, u.dflts)} :
           \E p \in {predict(u.model, rr.row, out)} :
               /\ cache' = u.cache
               /\ diskReads' = diskReads + u.reads
               /\ model' = u.model
               /\ COLUMNS' = u.cols
               /\ DEFAULTS' = u.dflts
               /\ session' = IF ok THEN rr.st ELSE u.session
               /\ outcome' = IF ok THEN "ok" ELSE "raised"
               /\ row' = IF ok THEN rr.row ELSE <<>>
               /\ pred' = IF ok THEN p.pred ELSE -1
               /\ prob' = IF ok THEN p.prob ELSE NoneV
               /\ proba' = IF ok THEN p.proba ELSE <<>>
        /\ lastOp' = "submit"
        /\ result' = NoneV
        /\ field' = ""
        /\ UNCHANGED <<disk, sinceReset>>

NextFn ==
    \/ CallBinarySelect
    \/ CallNumInput
    \/ CallSliderInput
    \/ CallMakeRow
    \/ CallInitState
    \/ SubmitFn

SpecFn == InitFn /\ [][NextFn]_vars

-----------------------------------------------------------------------------
(* Properties *)

RowColumns(r) == [i \in 1..Len(r) |-> r[i][1]]

RowValue(r, col) == Lookup(r, col)

\* the defaults the documentation gives: BMI 25.0, GenHlth 3, MentHlth 0,
\* PhysHlth 0, Age 8, Sex 1, Education 4, Income 5, every other column 0
DocumentedDefault(col) ==
    CASE col = "BMI" -> FloatV(250)
      [] col = "GenHlth" -> IntV(3)
      [] col = "Age" -> IntV(8)
      [] col = "Sex" -> IntV(1)
      [] col = "Education" -> IntV(4)
      [] col = "Income" -> IntV(5)
      [] OTHER -> IntV(0)

IsNumber(v) == v.t \in {"int", "float", "bool"}

\* C1: whatever the insertion order of the session state's keys, a row built
\* by make_row_from_state has exactly the columns of COLUMNS, in COLUMNS' order.
C1_ColumnOrder ==
    (lastOp = "make_row" \/ (lastOp = "submit" /\ outcome = "ok"))
        => RowColumns(row) = COLUMNS

\* a row was built from a session state that holds two columns in the order
\* opposite to the schema's, and a key that is no column
C1_Witness ==
    /\ lastOp = "make_row"
    /\ Has(session, ExtraKey)
    /\ \E i, j \in 1..Len(session), a, b \in 1..Len(COLUMNS) :
          /\ i < j /\ a > b
          /\ session[i][1] = COLUMNS[a]
          /\ session[j][1] = COLUMNS[b]

\* C2: in a row built by make_row_from_state every column the session state
\* lacks holds its documented default, and every column it has holds the
\* session state's value.
C2_MissingGetDefaults ==
    lastOp = "make_row" =>
        /\ Len(row) = Len(COLUMNS)
        /\ \A i \in 1..Len(COLUMNS) :
              row[i][2] = IF Has(session, COLUMNS[i])
                          THEN Lookup(session, COLUMNS[i])
                          ELSE DocumentedDefault(COLUMNS[i])

\* a row was built from a session state that lacks BMI and has another column
C2_Witness ==
    /\ lastOp = "make_row"
    /\ ~Has(session, "BMI")
    /\ RowValue(row, "BMI") = FloatV(250)
    /\ \E i \in 1..Len(COLUMNS) :
          Has(session, COLUMNS[i]) /\ row[i][2] # DocumentedDefault(COLUMNS[i])

\* C3: binary_select coerces "Yes", 1 and "1" to 1 and every other value, an
\* absent one included, to 0.
C3_TruthySynonyms ==
    lastOp = "binary_select" =>
        result = IF /\ Has(session, field)
                    /\ Lookup(session, field)
                         \in {StrV(<<"Y", "e", "s">>), IntV(1), StrV(<<"1">>)}
                 THEN IntV(1) ELSE IntV(0)

\* the type the documentation declares for a column's value
DeclaredType(col, v) ==
    CASE col \in BINARY_FIELDS -> v \in {IntV(0), IntV(1)}
      [] col = "BMI" -> v.t = "float"
      [] OTHER -> v.t = "int"

\* C4: every field of the Feature Row passed to the model has its declared
\* type: a binary field holds 0 or 1, a bounded-integer field an integer, BMI
\* a float.
C4_DeclaredTypes ==
    (lastOp = "submit" /\ outcome = "ok")
        => \A i \in 1..Len(row) : DeclaredType(row[i][1], row[i][2])

\* C5: no helper and no submission lets an exception escape, whatever value a
\* field holds.
C5_NeverRaises == outcome # "raised"

\* C6: predict returns a label in {0, 1}, and the probability of class 1 exactly
\* when the model exposes predict_proba, None when it does not.
C6_PredictContract ==
    (lastOp = "submit" /\ outcome = "ok" /\ RowColumns(row) = model.features) =>
        /\ pred \in {0, 1}
        /\ model.hasProba => (proba # <<>> /\ prob = FloatV(proba[2]))
        /\ ~model.hasProba => (proba = <<>> /\ prob = NoneV)

\* a prediction of class 1 with the probability 0.7 of class 1
C6_Witness ==
    /\ lastOp = "submit"
    /\ model.hasProba
    /\ pred = 1
    /\ proba = <<3, 7>>
    /\ prob = FloatV(7)

\* C7: make_row_from_state leaves the session state, COLUMNS and DEFAULTS as
\* they are, and called again with nothing edited in between it returns the
\* same row.
C7_PureIdempotent ==
    [][lastOp' = "make_row" =>
          /\ session' = session
          /\ COLUMNS' = COLUMNS
          /\ DEFAULTS' = DEFAULTS
          /\ lastOp = "make_row" => row' = row]_vars

\* a row was built from a session state that lacks a column
C7_Witness ==
    /\ lastOp = "make_row"
    /\ row # <<>>
    /\ \E i \in 1..Len(COLUMNS) : ~Has(session, COLUMNS[i])

\* C8: the artifact is read from disk at most once, and once it is read the
\* cached package, the model and COLUMNS never change.
C8_LoadedOnce ==
    [][/\ diskReads' <= 1
       /\ diskReads = 1 => (cache' = cache /\ model' = model /\ COLUMNS' = COLUMNS)]_vars

\* a prediction made after the file on disk was replaced by one with another
\* schema still uses the schema loaded first
C8_Witness ==
    /\ diskReads = 1
    /\ disk.columns # cache.columns
    /\ lastOp = "submit"
    /\ outcome = "ok"
    /\ RowColumns(row) = cache.columns

\* a number outside the documented bound of a bounded field
OutOfBound(col, v) ==
    /\ IsNumber(v)
    /\ LET tenths == IF v.t = "float" THEN v.n ELSE v.n * 10
       IN  CASE col = "GenHlth" -> tenths < 10 \/ tenths > 50
             [] col \in {"MentHlth", "PhysHlth"} -> tenths < 0 \/ tenths > 300
             [] OTHER -> FALSE

C10_ResetRestoresDefaults ==
    [][/\ lastOp' = "reset" =>
            \A i \in 1..Len(COLUMNS') :
                /\ Has(session', COLUMNS'[i])
                /\ Lookup(session', COLUMNS'[i]) = Lookup(DEFAULTS', COLUMNS'[i])
       /\ lastOp' = "run" =>
            \A k \in Keys(session) : Lookup(session', k) = Lookup(session, k)
       /\ (lastOp' = "submit" /\ sinceReset' = "clean" /\ outcome' = "ok") =>
            row' = DEFAULTS']_vars

\* a row built after a reset, with nothing edited, that is the all-defaults row
C10_Witness ==
    /\ lastOp = "submit"
    /\ sinceReset = "clean"
    /\ row # <<>>
    /\ row = DEFAULTS

====
